---- MODULE Spec2Model ----
(***************************************************************************)
(* Model of YTsectionDL (src/something.py): the YouTubeDownloader window,  *)
(* its pending marker pair, its committed segment list, the background     *)
(* FetchFormatsThread workers and the sequential download loop of          *)
(* start_download.                                                         *)
(*                                                                         *)
(* Times are Python floats in the source; here they are integers counting  *)
(* hundredths of a second, so 12 stands for 0.12 s.  An optional value     *)
(* (None or a value) is the empty sequence or a one-element sequence.      *)
(* Text fields the program only reads (the URL, the cookies path, the      *)
(* download type) are inputs of the handler that reads them.               *)
(***************************************************************************)
EXTENDS Integers, Sequences, FiniteSets, TLC

\* ------------------------------------------------------------------ bounds
MaxSegments == 2
MaxFetches == 2

\* ------------------------------------------------------------ input domains
\* Playback positions the player can report, in hundredths of a second.
Times == {0, 10, 12}
\* Contents of the URL field: empty, text without a v= parameter, a watch URL.
Urls == {"", "https://example.org/", "https://www.youtube.com/watch?v=vid"}
\* Contents of the cookies field.
CookieTexts == {"", "cookies.txt"}
\* Items of the download_type combo box (line 140).
DownloadTypes == {"video", "audio"}
\* Items of the resolution_mode combo box (line 146).
ResolutionModes == {"highest", "custom"}
\* Format-id lists the extraction library can return.
FormatLists == {<<>>, <<"18", "22">>}

None == <<>>
Some(x) == <<x>>
Val(o) == o[1]

VARIABLES
    \* YouTubeDownloader fields (lines 45-56)
    start_time, end_time, time_segments, video_id, current_time, previewing,
    player_ready, formats, is_fetching,
    \* widgets
    segments_list,      \* items of the QListWidget, each the text of one segment
    resolution_mode,    \* current text of the resolution_mode combo box
    custom_index,       \* currentIndex of the custom_format combo box (-1: none)
    status_label, progress_bar, download_btn,
    dialogs,            \* stack of open modal message boxes, innermost last
    \* fetch workers
    fetch_threads,      \* every FetchFormatsThread started, in start order
    signals,            \* queued signal emissions not yet delivered to the UI
    \* start_download's frame and the downloader processes
    pc, idx, cookies, download_type, custom_format_id, format_str,
    invocations,        \* downloader invocations of the run in progress
    prev_outputs        \* output templates given to invocations of earlier runs

playerVars == <<video_id, player_ready, current_time, previewing>>
markerVars == <<start_time, end_time>>
segmentVars == <<time_segments, segments_list>>
fetchVars == <<formats, is_fetching, fetch_threads, signals, custom_index>>
frameVars == <<pc, idx, cookies, download_type, custom_format_id, format_str>>
processVars == <<invocations, prev_outputs>>
widgetVars == <<resolution_mode, status_label, progress_bar, download_btn>>
vars == <<playerVars, markerVars, segmentVars, fetchVars, frameVars, processVars,
          widgetVars, dialogs>>

\* --------------------------------------------------------------- helpers
\* format_time: f"{seconds:.1f}s".  The text is represented by the number of
\* tenths it shows, so 12 (0.12 s) and 10 (0.10 s) both give 1 ("0.1s").
\* Times holds no value that is exactly half way between two tenths.
format_time(seconds) == (seconds + 5) \div 10

\* float(text.replace('s', '')): the value, in hundredths, of a text of tenths.
parse_time(tenths) == tenths * 10

\* The text of one list item, "Segment: <start> - <end>".
segment_text(start, end) == <<format_time(start), format_time(end)>>

\* list.remove(x): drop the first element equal to x.
RECURSIVE remove_first(_, _)
remove_first(s, x) ==
    IF s = <<>> THEN <<>>
    ELSE IF Head(s) = x THEN Tail(s)
    ELSE <<Head(s)>> \o remove_first(Tail(s), x)

\* QListWidget.takeItem(row): the list without its row-th item (1-based here).
take_item(s, row) == [k \in 1..(Len(s) - 1) |-> IF k < row THEN s[k] ELSE s[k + 1]]

\* The UI thread is inside a handler only while start_download runs; a modal
\* message box blocks user input but keeps delivering timers and signals.
UserCanAct == pc = "idle" /\ dialogs = <<>>
EventLoopRuns == pc \in {"idle", "error_box"}

Init ==
    /\ start_time = None
    /\ end_time = None
    /\ time_segments = <<>>
    /\ video_id = None
    /\ current_time = 0
    /\ previewing = FALSE
    /\ player_ready = FALSE
    /\ formats = <<>>
    /\ is_fetching = FALSE
    /\ segments_list = <<>>
    /\ resolution_mode = "highest"
    /\ custom_index = -1
    /\ status_label = <<"Ready">>
    /\ progress_bar = -1
    /\ download_btn = TRUE
    /\ dialogs = <<>>
    /\ fetch_threads = <<>>
    /\ signals = <<>>
    /\ pc = "idle"
    /\ idx = 0
    /\ cookies = ""
    /\ download_type = "video"
    /\ custom_format_id = None
    /\ format_str = <<>>
    /\ invocations = <<>>
    /\ prev_outputs = {}

\* ------------------------------------------------------- modal message boxes
\* QMessageBox.warning/information/critical: the box opens and the handler that
\* opened it waits in the box's own event loop until the user closes it.
open_box(text) == Append(dialogs, text)

\* ------------------------------------------------------------ fetch workers
\* Mutant of run: the exception is swallowed and nothing is emitted.
run_exception_swallowed(result) ==
    IF result.ok
    THEN <<[signal |-> "completed", formats |-> result.formats]>>
    ELSE <<>>

\* FetchFormatsThread.run: what the worker emits for one result of
\* extract_info (a format list, or an exception).
run(result) ==
    IF result.ok
    THEN <<[signal |-> "completed", formats |-> result.formats]>>
    ELSE <<[signal |-> "error", formats |-> <<>>]>>

ExtractResults ==
    {[ok |-> TRUE, formats |-> f] : f \in FormatLists}
        \cup {[ok |-> FALSE, formats |-> <<>>]}

count(emitted, name) == Cardinality({k \in DOMAIN emitted : emitted[k].signal = name})

\* One worker thread runs to the end of run().
FetchRun(w) ==
    /\ w \in DOMAIN fetch_threads
    /\ fetch_threads[w].state = "running"
    /\ \E result \in ExtractResults :
        LET emitted == run(result) IN
        /\ fetch_threads' = [fetch_threads EXCEPT ![w] =
               [@ EXCEPT !.state = "finished",
                         !.completed = count(emitted, "completed"),
                         !.error = count(emitted, "error")]]
        /\ signals' = signals \o [k \in DOMAIN emitted |->
               [thread |-> w, signal |-> emitted[k].signal,
                formats |-> emitted[k].formats]]
    /\ UNCHANGED <<playerVars, markerVars, segmentVars, formats, is_fetching,
                   custom_index, frameVars, processVars, widgetVars, dialogs>>

\* The body of start_fetch_formats once the URL is known to be non-empty
\* (lines 211-216); status is the text the label ends up with.  A worker that
\* self.fetch_thread no longer names goes on running: its run() still holds it.
start_thread ==
    /\ is_fetching' = TRUE
    /\ fetch_threads' = Append(fetch_threads,
           [state |-> "running", completed |-> 0, error |-> 0, handled |-> 0])
    /\ status_label' = <<"Fetching formats...">>

start_fetch_formats(url) ==
    IF url = ""
    THEN /\ dialogs' = open_box("Enter URL first")
         /\ UNCHANGED <<is_fetching, fetch_threads, status_label>>
    ELSE /\ start_thread
         /\ UNCHANGED dialogs

StartFetchFormats ==
    /\ UserCanAct
    /\ Len(fetch_threads) < MaxFetches
    /\ \E url \in Urls : start_fetch_formats(url)
    /\ UNCHANGED <<playerVars, markerVars, segmentVars, formats, signals,
                   custom_index, frameVars, processVars, resolution_mode,
                   progress_bar, download_btn>>

\* update_formats: the slot of the completed signal.
update_formats(sig) ==
    /\ formats' = sig.formats
    /\ custom_index' = IF Len(sig.formats) > 0 THEN 0 ELSE -1
    /\ is_fetching' = FALSE
    /\ status_label' = <<"Fetched formats", Len(sig.formats)>>
    /\ UNCHANGED dialogs

\* fetch_error: the slot of the error signal.
fetch_error(sig) ==
    /\ is_fetching' = FALSE
    /\ status_label' = <<"Fetch failed">>
    /\ dialogs' = open_box("Fetch error")
    /\ UNCHANGED <<formats, custom_index>>

\* The event loop delivers the oldest queued signal to its slot.
DeliverSignal ==
    /\ EventLoopRuns
    /\ signals # <<>>
    /\ LET sig == Head(signals) IN
        /\ IF sig.signal = "completed" THEN update_formats(sig) ELSE fetch_error(sig)
        /\ fetch_threads' = [fetch_threads EXCEPT ![sig.thread].handled = @ + 1]
    /\ signals' = Tail(signals)
    /\ UNCHANGED <<playerVars, markerVars, segmentVars, frameVars, processVars,
                   resolution_mode, progress_bar, download_btn>>

\* toggle_custom_format, the slot of resolution_mode.currentTextChanged.
ToggleCustomFormat ==
    /\ UserCanAct
    /\ \E mode \in ResolutionModes \ {resolution_mode} :
        /\ resolution_mode' = mode
        /\ dialogs' = IF mode = "custom" /\ formats = <<>> /\ ~is_fetching
                      THEN open_box("Please fetch formats first.")
                      ELSE dialogs
    /\ UNCHANGED <<playerVars, markerVars, segmentVars, fetchVars, frameVars,
                   processVars, status_label, progress_bar, download_btn>>

\* The user picks another item of the custom_format combo box, which is
\* enabled only in custom mode.
SelectCustomFormat ==
    /\ UserCanAct
    /\ resolution_mode = "custom"
    /\ \E i \in (0..(Len(formats) - 1)) \ {custom_index} : custom_index' = i
    /\ UNCHANGED <<playerVars, markerVars, segmentVars, formats, is_fetching,
                   fetch_threads, signals, frameVars, processVars, widgetVars,
                   dialogs>>

\* ------------------------------------------------------------------ player
has_video_parameter(url) == url = "https://www.youtube.com/watch?v=vid"

LoadVideo ==
    /\ UserCanAct
    /\ Len(fetch_threads) < MaxFetches
    /\ \E url \in Urls :
        IF has_video_parameter(url)
        THEN /\ video_id' = Some("vid")
             /\ player_ready' = FALSE
             /\ start_fetch_formats(url)
        ELSE /\ status_label' = <<"Load failed">>
             /\ dialogs' = open_box("Invalid YouTube URL")
             /\ UNCHANGED <<video_id, player_ready, is_fetching, fetch_threads>>
    /\ UNCHANGED <<current_time, previewing, markerVars, segmentVars, formats,
                   signals, custom_index, frameVars, processVars,
                   resolution_mode, progress_bar, download_btn>>

\* set_player_ready, the callback of the readiness poll that check_player_ready
\* keeps going (every 500 ms) while the page has not reported ready.
SetPlayerReady ==
    /\ EventLoopRuns
    /\ video_id # None
    /\ ~player_ready
    /\ \E ready \in BOOLEAN :
        IF ready
        THEN /\ player_ready' = TRUE
             /\ status_label' = <<"Video loaded and ready">>
        ELSE UNCHANGED <<player_ready, status_label>>
    /\ UNCHANGED <<video_id, current_time, previewing, markerVars, segmentVars,
                   fetchVars, frameVars, processVars, resolution_mode,
                   progress_bar, download_btn, dialogs>>

\* update_current_time (the 100 ms timer) and its callback set_current_time.
TimeReports == {None} \cup {Some(t) : t \in Times \cup {-1}}

SetCurrentTime ==
    /\ EventLoopRuns
    /\ video_id # None
    /\ player_ready
    /\ \E time \in TimeReports :
        IF time # None /\ Val(time) # -1
        THEN /\ current_time' = Val(time)
             /\ previewing' = IF previewing /\ end_time # None
                                  /\ Val(time) >= Val(end_time)
                               THEN FALSE ELSE previewing
        ELSE UNCHANGED <<current_time, previewing>>
    /\ UNCHANGED <<video_id, player_ready, markerVars, segmentVars, fetchVars,
                   frameVars, processVars, widgetVars, dialogs>>

PreviewSegment ==
    /\ UserCanAct
    /\ IF ~player_ready
       THEN dialogs' = open_box("Player not ready yet") /\ UNCHANGED previewing
       ELSE IF start_time = None \/ end_time = None
       THEN dialogs' = open_box("Set start and end times first")
            /\ UNCHANGED previewing
       ELSE previewing' = TRUE /\ UNCHANGED dialogs
    /\ UNCHANGED <<video_id, player_ready, current_time, markerVars, segmentVars,
                   fetchVars, frameVars, processVars, widgetVars>>

\* ----------------------------------------------------- markers and segments
SetStart ==
    /\ UserCanAct
    /\ start_time' = IF player_ready THEN Some(current_time) ELSE start_time
    /\ UNCHANGED <<end_time, playerVars, segmentVars, fetchVars, frameVars,
                   processVars, widgetVars, dialogs>>

SetEnd ==
    /\ UserCanAct
    /\ end_time' = IF player_ready THEN Some(current_time) ELSE end_time
    /\ UNCHANGED <<start_time, playerVars, segmentVars, fetchVars, frameVars,
                   processVars, widgetVars, dialogs>>

\* Mutants of the check: equal markers pass; the order is not looked at.
invalid_markers_equal_passes(start, end) ==
    start = None \/ end = None \/ Val(start) > Val(end)

invalid_markers_order_unchecked(start, end) ==
    start = None \/ end = None

\* The check of add_segment (line 344).
invalid_markers(start, end) ==
    start = None \/ end = None \/ Val(start) >= Val(end)

\* Mutant of add_segment: the end marker is not reset after the commit.
AddSegment_end_marker_kept ==
    /\ UserCanAct
    /\ Len(time_segments) < MaxSegments
    /\ Len(segments_list) < MaxSegments
    /\ IF invalid_markers(start_time, end_time)
       THEN /\ dialogs' = open_box("Invalid start/end times")
            /\ UNCHANGED <<time_segments, segments_list, start_time, end_time>>
       ELSE /\ time_segments' =
                Append(time_segments, <<Val(start_time), Val(end_time)>>)
            /\ segments_list' =
                Append(segments_list, segment_text(Val(start_time), Val(end_time)))
            /\ start_time' = None
            /\ UNCHANGED <<end_time, dialogs>>
    /\ UNCHANGED <<playerVars, fetchVars, frameVars, processVars, widgetVars>>

AddSegment ==
    /\ UserCanAct
    /\ Len(time_segments) < MaxSegments
    /\ Len(segments_list) < MaxSegments
    /\ IF invalid_markers(start_time, end_time)
       THEN /\ dialogs' = open_box("Invalid start/end times")
            /\ UNCHANGED <<time_segments, segments_list, start_time, end_time>>
       ELSE /\ time_segments' =
                Append(time_segments, <<Val(start_time), Val(end_time)>>)
            /\ segments_list' =
                Append(segments_list, segment_text(Val(start_time), Val(end_time)))
            /\ start_time' = None
            /\ end_time' = None
            /\ UNCHANGED dialogs
    /\ UNCHANGED <<playerVars, fetchVars, frameVars, processVars, widgetVars>>

\* The loop of delete_selected_segment over the selected rows.  The rows are
\* taken highest first; the result is the same in every order, because
\* removing the first occurrence of two different pairs commutes.
Max(S) == CHOOSE x \in S : \A y \in S : y <= x

RECURSIVE delete_rows(_, _, _)
delete_rows(segments, items, rows) ==
    IF rows = {} THEN <<segments, items>>
    ELSE LET row == Max(rows)
             segment_to_remove ==
                 <<parse_time(items[row][1]), parse_time(items[row][2])>>
         IN delete_rows(remove_first(segments, segment_to_remove),
                        take_item(items, row), rows \ {row})

DeleteSelectedSegment ==
    /\ UserCanAct
    /\ \E selected \in SUBSET DOMAIN segments_list :
        IF selected = {}
        THEN /\ dialogs' = open_box("Please select at least one segment to delete")
             /\ UNCHANGED segmentVars
        ELSE LET after == delete_rows(time_segments, segments_list, selected) IN
             /\ time_segments' = after[1]
             /\ segments_list' = after[2]
             /\ UNCHANGED dialogs
    /\ UNCHANGED <<playerVars, markerVars, fetchVars, frameVars, processVars,
                   widgetVars>>

\* ---------------------------------------------------------------- download
\* Mutant of the format string: custom audio gets the merge suffix too.
format_string_always_merges(mode, type, format_id) ==
    IF mode = "highest"
    THEN IF type = "video" THEN <<"best[height<=1080]">> ELSE <<"bestaudio">>
    ELSE <<Val(format_id), "+bestaudio/best">>

\* The format string of start_download (lines 421-427), as the sequence of
\* the pieces the f-string joins.
format_string(mode, type, format_id) ==
    IF mode = "highest"
    THEN IF type = "video" THEN <<"best[height<=1080]">> ELSE <<"bestaudio">>
    ELSE IF type = "video"
         THEN <<Val(format_id), "+bestaudio/best">>
         ELSE <<Val(format_id)>>

\* custom_format.currentData(): the format id stored with the current item.
current_data == IF custom_index = -1 THEN None ELSE Some(formats[custom_index + 1])

\* Mutant of the output template: the index is left out of the name.
output_template_without_index(index) == <<"output", 0, ".%(ext)s">>

\* The output template of the idx-th segment (line 436): output<idx>.%(ext)s
\* in download_dir, which stays the directory the program was started in.
output_template(index) == <<"output", index, ".%(ext)s">>

\* f'*{start}-{end}', the range given to --download-sections (line 434).
download_sections(start, end) == <<"*", start, "-", end>>

\* Mutant of the loop: the segments are taken last first.
enumerate_reversed(index) == time_segments[Len(time_segments) + 1 - index]

\* enumerate(self.time_segments, 1): the segment of the index-th turn.
enumerate(index) == time_segments[index]

\* Mutant of the check: the exit code is not looked at.
failed_never(returncode) == FALSE

\* The check of the exit code (line 439).
failed(returncode) == returncode # 0

\* The command line built for one segment (lines 431-436).  The URL argument
\* is left out: no handler changes it during a run.
command(cookies_text, start, end, format, index) ==
    [cookies_arg |-> IF cookies_text # "" THEN Some(cookies_text) ELSE None,
     download_sections |-> download_sections(start, end),
     f |-> format,
     o |-> output_template(index)]

\* Mutant of the progress value: the turns are counted from zero.
progress_value_from_zero(index, total) == ((index - 1) * 100) \div total

\* progress_bar.setValue(int((idx / len(self.time_segments)) * 100))
progress_value(index, total) == (index * 100) \div total

\* Mutant of start_download: an empty segment list is not refused.
StartDownloadWith_segments_unchecked(urls, cookie_texts, types) ==
    /\ UserCanAct
    /\ \E url \in urls, cookies_text \in cookie_texts, type \in types :
        IF url = ""
        THEN /\ dialogs' = open_box("Missing URL or segments")
             /\ UNCHANGED <<frameVars, processVars, widgetVars>>
        ELSE IF resolution_mode = "custom" /\ custom_index = -1
        THEN /\ dialogs' = open_box("Select a custom format")
             /\ UNCHANGED <<frameVars, processVars, widgetVars>>
        ELSE /\ download_btn' = FALSE
             /\ status_label' = <<"Downloading...">>
             /\ progress_bar' = 0
             /\ cookies' = cookies_text
             /\ download_type' = type
             /\ custom_format_id' =
                    IF resolution_mode = "custom" THEN current_data ELSE None
             /\ format_str' = format_string(resolution_mode, type,
                    IF resolution_mode = "custom" THEN current_data ELSE None)
             /\ pc' = "loop"
             /\ idx' = 1
             /\ UNCHANGED <<processVars, resolution_mode, dialogs>>
    /\ UNCHANGED <<playerVars, markerVars, segmentVars, fetchVars>>

\* Lines 402-427: the input checks, then the set-up of a run, for the field
\* contents the user can have entered.
StartDownloadWith(urls, cookie_texts, types) ==
    /\ UserCanAct
    /\ \E url \in urls, cookies_text \in cookie_texts, type \in types :
        IF url = "" \/ time_segments = <<>>
        THEN /\ dialogs' = open_box("Missing URL or segments")
             /\ UNCHANGED <<frameVars, processVars, widgetVars>>
        ELSE IF resolution_mode = "custom" /\ custom_index = -1
        THEN /\ dialogs' = open_box("Select a custom format")
             /\ UNCHANGED <<frameVars, processVars, widgetVars>>
        ELSE /\ download_btn' = FALSE
             /\ status_label' = <<"Downloading...">>
             /\ progress_bar' = 0
             /\ cookies' = cookies_text
             /\ download_type' = type
             /\ custom_format_id' =
                    IF resolution_mode = "custom" THEN current_data ELSE None
             /\ format_str' = format_string(resolution_mode, type,
                    IF resolution_mode = "custom" THEN current_data ELSE None)
             /\ pc' = "loop"
             /\ idx' = 1
             /\ UNCHANGED <<processVars, resolution_mode, dialogs>>
    /\ UNCHANGED <<playerVars, markerVars, segmentVars, fetchVars>>

StartDownload == StartDownloadWith(Urls, CookieTexts, DownloadTypes)

\* The except clause (lines 446-448): the status, then the modal error box.
except(message) ==
    /\ status_label' = <<message>>
    /\ dialogs' = open_box("Download Error")
    /\ pc' = "error_box"

\* One turn of the for loop up to subprocess.run (lines 430-438): the command
\* is built and the process started, or starting it raises.
InvokeWith(starts) ==
    /\ pc = "loop"
    /\ idx <= Len(time_segments)
    /\ \E started \in starts :
        IF started
        THEN /\ invocations' = Append(invocations,
                    [cmd |-> command(cookies, enumerate(idx)[1],
                                     enumerate(idx)[2], format_str, idx),
                     returncode |-> None])
             /\ status_label' = <<"Downloading segment", idx>>
             /\ pc' = "process"
             /\ UNCHANGED dialogs
        ELSE /\ except("Error: [Errno 2] No such file or directory: 'yt-dlp'")
             /\ UNCHANGED invocations
    /\ UNCHANGED <<playerVars, markerVars, segmentVars, fetchVars, idx, cookies,
                   download_type, custom_format_id, format_str, prev_outputs,
                   resolution_mode, progress_bar, download_btn>>

Invoke == InvokeWith(BOOLEAN)

ExitCodes == {0, 1}

\* subprocess.run returns: the exit code is checked (lines 439-441).
ProcessExitWith(codes) ==
    /\ pc = "process"
    /\ \E code \in codes :
        /\ invocations' =
               [invocations EXCEPT ![Len(invocations)].returncode = Some(code)]
        /\ IF failed(code)
           THEN /\ except("Error: stderr")
                /\ UNCHANGED <<idx, progress_bar>>
           ELSE /\ progress_bar' = progress_value(idx, Len(time_segments))
                /\ idx' = idx + 1
                /\ pc' = "loop"
                /\ UNCHANGED <<status_label, dialogs>>
    /\ UNCHANGED <<playerVars, markerVars, segmentVars, fetchVars, cookies,
                   download_type, custom_format_id, format_str, prev_outputs,
                   resolution_mode, download_btn>>

ProcessExit == ProcessExitWith(ExitCodes)

\* The locals of start_download are gone once it has returned, and the
\* processes of the run belong to the past: their output templates are kept.
return_from_download ==
    /\ prev_outputs' =
           prev_outputs \cup {invocations[k].cmd.o : k \in DOMAIN invocations}
    /\ invocations' = <<>>
    /\ pc' = "idle"
    /\ idx' = 0
    /\ cookies' = ""
    /\ download_type' = "video"
    /\ custom_format_id' = None
    /\ format_str' = <<>>

\* The loop is exhausted (lines 442-445), then the finally clause (line 450).
FinishDownload ==
    /\ pc = "loop"
    /\ idx > Len(time_segments)
    /\ status_label' = <<"Download completed">>
    /\ time_segments' = <<>>
    /\ segments_list' = <<>>
    /\ download_btn' = TRUE
    /\ return_from_download
    /\ UNCHANGED <<playerVars, markerVars, fetchVars,
                   resolution_mode, progress_bar, dialogs>>

\* Mutant of the finally clause: the download button is not enabled again
\* after the error box of a failed run is dismissed.
CloseBox_without_finally ==
    /\ dialogs # <<>>
    /\ dialogs' = SubSeq(dialogs, 1, Len(dialogs) - 1)
    /\ IF dialogs[Len(dialogs)] = "Download Error"
       THEN UNCHANGED download_btn /\ return_from_download
       ELSE UNCHANGED <<download_btn, frameVars, processVars>>
    /\ UNCHANGED <<playerVars, markerVars, segmentVars, fetchVars,
                   resolution_mode, status_label, progress_bar>>

\* The user closes the innermost message box.  Closing the error box of
\* start_download lets it go on to its finally clause (line 450) and return.
CloseBox ==
    /\ dialogs # <<>>
    /\ dialogs' = SubSeq(dialogs, 1, Len(dialogs) - 1)
    /\ IF dialogs[Len(dialogs)] = "Download Error"
       THEN download_btn' = TRUE /\ return_from_download
       ELSE UNCHANGED <<download_btn, frameVars, processVars>>
    /\ UNCHANGED <<playerVars, markerVars, segmentVars, fetchVars,
                   resolution_mode, status_label, progress_bar>>

\* ------------------------------------------------------------ specification
\* The whole program: every handler, every worker, every process.
Next ==
    \/ LoadVideo
    \/ StartFetchFormats
    \/ \E w \in 1..MaxFetches : FetchRun(w)
    \/ DeliverSignal
    \/ ToggleCustomFormat
    \/ SelectCustomFormat
    \/ SetPlayerReady
    \/ SetCurrentTime
    \/ PreviewSegment
    \/ SetStart
    \/ SetEnd
    \/ AddSegment
    \/ DeleteSelectedSegment
    \/ StartDownload
    \/ Invoke
    \/ ProcessExit
    \/ FinishDownload
    \/ CloseBox

Spec == Init /\ [][Next]_vars

\* Marking and committing segments: the user loads one video, scrubs, sets
\* markers, adds and deletes segments.  No download is started.
NextMarkers ==
    \/ (fetch_threads = <<>> /\ LoadVideo)
    \/ SetPlayerReady
    \/ SetCurrentTime
    \/ SetStart
    \/ SetEnd
    \/ AddSegment
    \/ DeleteSelectedSegment
    \/ CloseBox

\* The same session with downloads of the committed segments, in the
\* resolution mode the window starts with, the cookies field left empty.
NextSegments ==
    \/ NextMarkers
    \/ StartDownloadWith(Urls, {""}, {"video"})
    \/ Invoke
    \/ ProcessExit
    \/ FinishDownload

SpecSegments == Init /\ [][NextSegments]_vars

\* The same session when the downloader starts and exits 0 every time: one
\* batch of segments after another, each run completing.
NextBatches ==
    \/ NextMarkers
    \/ StartDownloadWith(Urls, {""}, {"video"})
    \/ InvokeWith({TRUE})
    \/ ProcessExitWith({0})
    \/ FinishDownload

SpecBatches == Init /\ [][NextBatches]_vars

\* The fetch workers and the widgets they feed.
NextFetch ==
    \/ LoadVideo
    \/ StartFetchFormats
    \/ \E w \in 1..MaxFetches : FetchRun(w)
    \/ DeliverSignal
    \/ ToggleCustomFormat
    \/ SelectCustomFormat
    \/ SetPlayerReady
    \/ CloseBox

SpecFetch == Init /\ [][NextFetch]_vars

\* A started QThread is scheduled and extract_info returns or raises (its
\* network calls time out); the event loop of the window, which here is never
\* blocked in a download, delivers every queued signal.
FairSpecFetch ==
    /\ SpecFetch
    /\ WF_vars(DeliverSignal)
    /\ \A w \in 1..MaxFetches : WF_vars(FetchRun(w))

\* The download loop.  The states it starts from are those the window is in
\* once the user has loaded a video (LoadVideo, which starts the one fetch
\* worker), the player has reported ready, and the user has committed any
\* list of segments and left the playback position at the last end marker.
\* Every one of these states is reached from Init by steps of NextMarkers.
ValidPairs == {p \in Times \X Times : p[1] < p[2]}
SegmentLists == UNION {[1..n -> ValidPairs] : n \in 0..MaxSegments}

InitDownload ==
    /\ time_segments \in SegmentLists
    /\ segments_list = [k \in DOMAIN time_segments |->
           segment_text(time_segments[k][1], time_segments[k][2])]
    /\ start_time = None
    /\ end_time = None
    /\ video_id = Some("vid")
    /\ player_ready = TRUE
    /\ current_time = IF time_segments = <<>> THEN 0
                      ELSE time_segments[Len(time_segments)][2]
    /\ previewing = FALSE
    /\ formats = <<>>
    /\ is_fetching = TRUE
    /\ fetch_threads =
           <<[state |-> "running", completed |-> 0, error |-> 0, handled |-> 0]>>
    /\ signals = <<>>
    /\ resolution_mode = "highest"
    /\ custom_index = -1
    /\ status_label = <<"Video loaded and ready">>
    /\ progress_bar = -1
    /\ download_btn = TRUE
    /\ dialogs = <<>>
    /\ pc = "idle"
    /\ idx = 0
    /\ cookies = ""
    /\ download_type = "video"
    /\ custom_format_id = None
    /\ format_str = <<>>
    /\ invocations = <<>>
    /\ prev_outputs = {}

NextDownload ==
    \/ \E w \in 1..MaxFetches : FetchRun(w)
    \/ DeliverSignal
    \/ ToggleCustomFormat
    \/ SelectCustomFormat
    \/ StartDownload
    \/ Invoke
    \/ ProcessExit
    \/ FinishDownload
    \/ CloseBox

SpecDownload == InitDownload /\ [][NextDownload]_vars

\* The previewing part of the program: the marker and segment operations
\* together with preview_segment and the player's time reports.
NextPreview ==
    \/ NextMarkers
    \/ PreviewSegment

SpecPreview == Init /\ [][NextPreview]_vars

\* ------------------------------------------------------------------ claims

\* C1: in every reachable state every (start, end) pair held in time_segments
\* has start < end.
C1_SegmentsOrdered ==
    \A k \in DOMAIN time_segments : time_segments[k][1] < time_segments[k][2]

\* Two different segments are committed after an earlier download run.
C1_Witness ==
    /\ Len(time_segments) = 2
    /\ time_segments[1] # time_segments[2]
    /\ prev_outputs # {}

\* C6: add_segment with both markers set and start_time < end_time appends
\* exactly (start_time, end_time) at the end of time_segments, leaves the
\* earlier segments as they were and resets both markers to unset.
C6_AddSegmentCommits ==
    [][(/\ AddSegment
        /\ start_time # None
        /\ end_time # None
        /\ Val(start_time) < Val(end_time))
       => /\ Len(time_segments') = Len(time_segments) + 1
          /\ time_segments'[Len(time_segments')] =
                 <<Val(start_time), Val(end_time)>>
          /\ \A k \in DOMAIN time_segments : time_segments'[k] = time_segments[k]
          /\ start_time' = None
          /\ end_time' = None]_vars

\* A second segment has just been committed: the markers are unset again.
C6_Witness ==
    /\ Len(time_segments) = 2
    /\ start_time = None
    /\ end_time = None
    /\ UserCanAct

\* C7: add_segment with start_time unset, end_time unset or
\* start_time >= end_time changes none of time_segments, the displayed list,
\* start_time and end_time.
C7_AddSegmentRejects ==
    [][(/\ AddSegment
        /\ \/ start_time = None
           \/ end_time = None
           \/ Val(start_time) >= Val(end_time))
       => UNCHANGED <<time_segments, segments_list, start_time, end_time>>]_vars

\* add_segment has refused two markers that are both set, the start after
\* the end, with a segment already in the list.
C7_Witness ==
    /\ dialogs = <<"Invalid start/end times">>
    /\ start_time # None
    /\ end_time # None
    /\ Val(start_time) > Val(end_time)
    /\ time_segments # <<>>

\* C2: in a run that passed the input checks and in which every downloader
\* process exited with code 0, the downloader was invoked exactly once per
\* committed segment, in list order, the k-th invocation with the k-th
\* segment's start and end as its --download-sections range; and an
\* invocation is started only after every earlier one has exited.
C2_OnePerSegmentInOrder ==
    /\ \A k \in DOMAIN invocations :
           k < Len(invocations) => invocations[k].returncode # None
    /\ (pc = "loop" /\ idx > Len(time_segments))
       => /\ Len(invocations) = Len(time_segments)
          /\ \A k \in DOMAIN invocations :
                /\ invocations[k].returncode = Some(0)
                /\ invocations[k].cmd.download_sections =
                       <<"*", time_segments[k][1], "-", time_segments[k][2]>>

\* A run over two different segments has had both processes exit 0.
C2_Witness ==
    /\ pc = "loop"
    /\ idx > Len(time_segments)
    /\ Len(time_segments) = 2
    /\ time_segments[1] # time_segments[2]

\* C3: when the invocation for a segment exits non-zero, the status becomes
\* an "Error: ..." message; from then until start_download returns no further
\* downloader is invoked and the status never becomes "Download completed";
\* and time_segments and the displayed list stay as they were before the run.
C3_NonZeroExitStopsRun ==
    [][/\ (/\ pc = "process"
           /\ invocations'[Len(invocations)].returncode \notin {None, Some(0)})
          => /\ pc' = "error_box"
             /\ status_label' = <<"Error: stderr">>
             /\ Len(invocations') = Len(invocations)
       /\ pc = "error_box"
          => /\ Len(invocations') <= Len(invocations)
             /\ status_label' # <<"Download completed">>
       /\ (pc' # "idle" \/ pc = "error_box")
          => UNCHANGED <<time_segments, segments_list>>]_vars

\* The first of two segments has failed: its process exited non-zero and no
\* process was started for the second.
C3_Witness ==
    /\ pc = "error_box"
    /\ Len(time_segments) = 2
    /\ Len(invocations) = 1
    /\ invocations[1].returncode = Some(1)

\* C4: within one run the k-th invocation is given the output template
\* output<k>, so no two invocations of the run share an output name.
C4_OutputPerSegment ==
    /\ \A k \in DOMAIN invocations :
           invocations[k].cmd.o = <<"output", k, ".%(ext)s">>
    /\ \A j, k \in DOMAIN invocations :
           j # k => invocations[j].cmd.o # invocations[k].cmd.o

\* The second process of a run has been started.
C4_Witness == Len(invocations) = 2

\* C8: over the whole session no two downloader invocations are given the
\* same output file name.
C8_NoOutputNameReused ==
    /\ \A k \in DOMAIN invocations : invocations[k].cmd.o \notin prev_outputs
    /\ \A j, k \in DOMAIN invocations :
           j # k => invocations[j].cmd.o # invocations[k].cmd.o

\* C9: when every invocation of a run has exited 0, start_download returns
\* with time_segments and the displayed list empty, the status "Download
\* completed" and the progress bar at 100; no other step of start_download
\* changes either list.
C9_ClearedOnlyOnSuccess ==
    [][IF pc = "loop" /\ idx > Len(time_segments) /\ pc' = "idle"
       THEN /\ time_segments' = <<>>
            /\ segments_list' = <<>>
            /\ status_label' = <<"Download completed">>
            /\ progress_bar' = 100
       ELSE UNCHANGED <<time_segments, segments_list>>]_vars

\* start_download has returned from a run of two segments that succeeded.
C9_Witness ==
    /\ pc = "idle"
    /\ status_label = <<"Download completed">>
    /\ time_segments = <<>>
    /\ segments_list = <<>>
    /\ progress_bar = 100
    /\ Cardinality(prev_outputs) = 2

\* C10: every invocation of a run carries the format argument given by the
\* resolution mode, the download type and the format id selected when the
\* run started, the same for all segments, and carries --cookies exactly
\* when the cookies field was non-empty.
C10_Expected(mode, type, format_id) ==
    CASE mode = "highest" /\ type = "video" -> <<"best[height<=1080]">>
      [] mode = "highest" /\ type = "audio" -> <<"bestaudio">>
      [] mode = "custom" /\ type = "video" -> <<format_id[1], "+bestaudio/best">>
      [] mode = "custom" /\ type = "audio" -> <<format_id[1]>>

C10_FormatAndCookies ==
    /\ [](\A k \in DOMAIN invocations :
            /\ invocations[k].cmd.f =
                   C10_Expected(resolution_mode, download_type, custom_format_id)
            /\ invocations[k].cmd.cookies_arg =
                   (IF cookies = "" THEN <<>> ELSE <<cookies>>))
    /\ [][(pc = "idle" /\ pc' = "loop" /\ resolution_mode = "custom")
          => custom_format_id' = <<formats[custom_index + 1]>>]_vars

\* A custom audio run with a cookies file, on the second format of the list,
\* has started its second process.
C10_Witness ==
    /\ Len(invocations) = 2
    /\ resolution_mode = "custom"
    /\ download_type = "audio"
    /\ custom_format_id = <<"22">>
    /\ cookies # ""

\* C5: every fetch worker reports exactly once: a worker that has left run()
\* has emitted one signal, completed or error and not both; a worker still in
\* run() has emitted none; the UI handles a worker's report at most once,
\* and, the worker and the event loop being scheduled, does handle it;
\* and the slot that handles a report sets is_fetching to false.
C5_OneReportPerWorker ==
    /\ [](\A w \in DOMAIN fetch_threads :
            LET t == fetch_threads[w]
                queued == Cardinality({k \in DOMAIN signals : signals[k].thread = w})
            IN /\ t.state = "running" => t.completed + t.error = 0
               /\ t.state = "finished" => t.completed + t.error = 1
               /\ t.handled + queued = t.completed + t.error)
    /\ [][Len(signals') < Len(signals) => is_fetching' = FALSE]_vars
    /\ \A w \in 1..MaxFetches :
           (Len(fetch_threads) >= w)
               ~> (Len(fetch_threads) >= w /\ fetch_threads[w].handled = 1)

\* Two workers have run, one emitted completed and one error, and both
\* reports have been handled.
C5_Witness ==
    /\ Len(fetch_threads) = 2
    /\ \A w \in DOMAIN fetch_threads :
           fetch_threads[w].state = "finished" /\ fetch_threads[w].handled = 1
    /\ \E w \in DOMAIN fetch_threads : fetch_threads[w].completed = 1
    /\ \E w \in DOMAIN fetch_threads : fetch_threads[w].error = 1
    /\ ~is_fetching

\* C11: in every reachable state is_fetching is true if and only if some
\* fetch worker has been started and has not yet had its completed or error
\* report handled.
C11_IsFetchingTracksWorkers ==
    is_fetching <=> \E w \in DOMAIN fetch_threads : fetch_threads[w].handled = 0

\* C12: the displayed list and time_segments have the same length and the
\* k-th displayed item is the one-decimal rendering of the k-th pair of
\* time_segments.
C12_ListMatchesSegments ==
    /\ Len(segments_list) = Len(time_segments)
    /\ \A k \in DOMAIN time_segments :
           k \in DOMAIN segments_list =>
               segments_list[k] = <<(time_segments[k][1] + 5) \div 10,
                                    (time_segments[k][2] + 5) \div 10>>

\* C13: start_download with the URL empty, with time_segments empty, or in
\* custom mode with no custom format selected starts no run: no downloader
\* process is invoked, time_segments and the displayed list are unchanged
\* and the download button stays enabled.
C13_Refused ==
    /\ pc' = "idle"
    /\ invocations' = invocations
    /\ prev_outputs' = prev_outputs
    /\ UNCHANGED <<time_segments, segments_list>>
    /\ download_btn
    /\ download_btn'

C13_StartDownloadRefuses ==
    [][/\ StartDownloadWith({""}, CookieTexts, DownloadTypes) => C13_Refused
       /\ (StartDownload /\ time_segments = <<>>) => C13_Refused
       /\ (StartDownload /\ resolution_mode = "custom" /\ custom_index = -1)
              => C13_Refused]_vars

\* start_download has refused a run over committed segments, with a URL, in
\* custom mode with no format to select; an earlier run went through.
C13_Witness ==
    /\ dialogs = <<"Select a custom format">>
    /\ time_segments # <<>>
    /\ resolution_mode = "custom"
    /\ custom_index = -1
    /\ prev_outputs # {}
    /\ pc = "idle"

\* C14: the download button is disabled only while a run of start_download
\* executes; whenever start_download is not executing, having returned by
\* any path, the button is enabled.
C14_ButtonEnabledAfterReturn ==
    pc = "idle" => download_btn

\* A run has failed, its error box has been dismissed and start_download
\* has returned through the except and finally clauses.
C14_Witness ==
    /\ pc = "idle"
    /\ dialogs = <<>>
    /\ status_label = <<"Error: stderr">>
    /\ download_btn
    /\ time_segments # <<>>

\* C15: previewing never stays true with no end marker to stop at: in every
\* reachable state in which previewing is true the end marker is set, so
\* that a time report at or past it pauses playback and resets previewing.
C15_PreviewHasEndMarker ==
    previewing => end_time # None
====
